---------------------------- MODULE Spec2Model ----------------------------
(***************************************************************************)
(* A model of src/bundler.js: the module analyzer createAsset, the graph   *)
(* builder createGraph, the emitter bundle, the main script, and the       *)
(* runtime loader that bundle generates (the require function inside the   *)
(* artifact).                                                              *)
(*                                                                         *)
(* Paths are sequences of components ("./src/entry.js" is                  *)
(* <<".", "src", "entry.js">>).  The file system is revealed lazily: the   *)
(* content of a file is chosen the first time it is read and is the same   *)
(* on every later read.                                                    *)
(***************************************************************************)
EXTENDS Naturals, Sequences, FiniteSets, TLC

\* ------------------------------------------------------------------ bounds

\* Total number of import declarations in the files of a file system.
MaxImports == 3

\* Number of createGraph calls made in one process (SpecMulti).
MaxBuilds == 2

\* Total number of specifier-map entries in a record collection that is
\* handed to bundle directly (SpecEmit).
MaxEdges == 3

\* The call stack of an artifact with a cyclic registry grows without bound;
\* the model stops growing it here.  No acyclic registry gets this deep.
StackCap == MaxImports + 2

\* The worklist of a cyclic import graph grows without bound; the model
\* stops growing it here.  No acyclic graph within MaxImports gets this far.
QueueCap == 2 * MaxImports + 2

\* ------------------------------------------------------------------- paths

\* The raw specifiers a source file may write in an import declaration.
Specifiers == {"./a", "./b", "./entry", "./sub/a"}

\* The components of a specifier (the text between the separators).
Split(spec) ==
  CASE spec = "./a"     -> <<".", "a">>
    [] spec = "./b"     -> <<".", "b">>
    [] spec = "./entry" -> <<".", "entry">>
    [] spec = "./sub/a" -> <<".", "sub", "a">>

\* The entry file of the main script.
Entry == <<".", "src", "entry.js">>

RECURSIVE Norm(_, _)
Norm(rest, acc) ==
  IF rest = <<>> THEN acc
  ELSE LET c == Head(rest) IN
       IF c = "." THEN Norm(Tail(rest), acc)
       ELSE IF c = ".." /\ acc # <<>> /\ acc[Len(acc)] # ".."
            THEN Norm(Tail(rest), SubSeq(acc, 1, Len(acc) - 1))
            ELSE Norm(Tail(rest), Append(acc, c))

\* path.normalize: "." components dropped, ".." resolved.
Normalize(p) == LET n == Norm(p, <<>>) IN IF n = <<>> THEN <<".">> ELSE n

\* path.dirname
Dirname(p) == IF Len(p) <= 1 THEN <<".">> ELSE SubSeq(p, 1, Len(p) - 1)

\* path.join(dirname, relativePath)
PathJoin(dir, rel) == Normalize(dir \o rel)

\* absPath + '.js'
AddJs(p) == [p EXCEPT ![Len(p)] = @ \o ".js"]

\* The file a specifier written in `filename` is read from.
ChildPath(filename, spec) == AddJs(PathJoin(Dirname(filename), Split(spec)))

\* The file that fs.readFileSync(filename) opens.
CanonicalPath(filename) == Normalize(filename)

\* ------------------------------------------------------------ file contents

RECURSIVE SeqsUpTo(_, _)
SeqsUpTo(S, n) ==
  IF n = 0 THEN {<<>>}
  ELSE LET shorter == SeqsUpTo(S, n - 1) IN
       shorter \cup {Append(s, x) : s \in {t \in shorter : Len(t) = n - 1}, x \in S}

\* What createAsset finds in a file: a module with an ordered list of import
\* specifiers, or a file that makes readFileSync, babylon.parse or
\* babel.transformFromAst throw.
ContentsUpTo ==
  [n \in 0..MaxImports |->
     [kind : {"ok"}, deps : SeqsUpTo(Specifiers, n)]
       \cup [kind : {"unreadable", "unparsable", "unlowerable"}, deps : {<<>>}]]

VARIABLES
  ID,       \* the module-level identity counter
  fs,       \* the file system as far as it has been read: path -> content
  pc,       \* where the process is
  queue,    \* createGraph's worklist, the collection it returns
  i,        \* position of `asset` in the for-of loop over queue
  j,        \* position of `relativePath` in asset.deps.forEach
  issued,   \* every identity createAsset has returned, in order
  builds,   \* the number of createGraph calls made so far
  result,   \* the value bundle returned: <<artifact>>, or <<>> before that
  stdout,   \* what console.log has written
  stack,    \* the artifact's call stack: one frame per require call in progress
  nextObj,  \* the next fresh object of the artifact's heap
  executed, \* the identities whose function body was invoked, in order
  returned, \* the require calls that returned: identity and exports object
  prior     \* the runs of artifacts emitted before the current one

buildVars == <<ID, fs, queue, i, j, issued, builds>>
emitVars == <<result, stdout>>
runVars == <<stack, nextObj, executed, returned, prior>>
vars == <<ID, fs, pc, queue, i, j, issued, builds, result, stdout,
          stack, nextObj, executed, returned, prior>>

RECURSIVE SumLen(_, _)
SumLen(f, D) ==
  IF D = {} THEN 0
  ELSE LET p == CHOOSE q \in D : TRUE IN Len(f[p].deps) + SumLen(f, D \ {p})

\* The number of import declarations in the files read so far.
TotalImports(f) == SumLen(f, DOMAIN f)

\* What fs.readFileSync(filename) and the parser may find: what the file was
\* found to hold before, or, on its first read, any content.
Readable(filename) ==
  LET p == CanonicalPath(filename) IN
  IF p \in DOMAIN fs THEN {fs[p]} ELSE ContentsUpTo[MaxImports - TotalImports(fs)]

\* The file system after `filename` was read and found to hold c.
Read(filename, c) ==
  LET p == CanonicalPath(filename) IN
  IF p \in DOMAIN fs THEN fs ELSE fs @@ (p :> c)

RECURSIVE Distinct(_, _)
Distinct(s, seen) ==
  IF s = <<>> THEN <<>>
  ELSE IF Head(s) \in seen THEN Distinct(Tail(s), seen)
       ELSE <<Head(s)>> \o Distinct(Tail(s), seen \cup {Head(s)})

\* babel.transformFromAst: the lowered code, as far as the loader can see it:
\* the specifiers the body passes to require, one call per distinct source,
\* in order of first appearance.
Lower(deps) == Distinct(deps, {})

\* A createAsset that catches parse and lowering failures and carries on
\* with a record without imports.
AnalyzableLenient(c) == c.kind # "unreadable"

\* createAsset returns a record for content c; for any other content
\* readFileSync, babylon.parse or babel.transformFromAst throws, and nothing
\* in the script catches it.
Analyzable(c) == c.kind = "ok"

\* A createAsset that numbers records by their position in the current
\* queue instead of by the module-level counter.
createAssetLocalId(filename, c) ==
  [id       |-> Len(queue),
   filename |-> filename,
   deps     |-> c.deps,
   code     |-> Lower(c.deps),
   mapped   |-> FALSE,
   mapping  |-> <<>>]

\* The object createAsset returns for a readable, well-formed file.
createAsset(filename, c) ==
  [id       |-> ID,
   filename |-> filename,
   deps     |-> c.deps,
   code     |-> Lower(c.deps),
   mapped   |-> FALSE,
   mapping  |-> <<>>]

\* An assignment that replaces the whole mapping object by one entry.
MapSetOnly(m, k, v) == <<[key |-> k, val |-> v]>>

\* An assignment that leaves a key that is already there alone.
MapSetKeepFirst(m, k, v) ==
  IF \E n \in 1..Len(m) : m[n].key = k THEN m ELSE Append(m, [key |-> k, val |-> v])

\* asset.mapping[relativePath] = child.id on a plain object: a new key goes
\* last, an existing key keeps its place and takes the new value.
MapSet(m, k, v) ==
  IF \E n \in 1..Len(m) : m[n].key = k
  THEN [n \in 1..Len(m) |-> IF m[n].key = k THEN [key |-> k, val |-> v] ELSE m[n]]
  ELSE Append(m, [key |-> k, val |-> v])

MapKeys(m) == {m[n].key : n \in 1..Len(m)}
MapGet(m, k) == (CHOOSE n \in 1..Len(m) : m[n].key = k)
MapVal(m, k) == m[MapGet(m, k)].val

\* ------------------------------------------------------------- createGraph

\* createGraph(entry) up to the loop:
\* const mainAsset = createAsset(entry); const queue = [mainAsset]
EnterCreateGraph(entry) ==
  /\ \E c \in Readable(entry) :
       /\ fs' = Read(entry, c)
       /\ IF Analyzable(c)
          THEN /\ queue' = <<createAsset(entry, c)>>
               /\ ID' = ID + 1
               /\ issued' = Append(issued, createAsset(entry, c).id)
               /\ pc' = "loop"
          ELSE /\ pc' = "failed"
               /\ queue' = <<>>
               /\ UNCHANGED <<ID, issued>>
  /\ i' = 1
  /\ j' = 0
  /\ builds' = builds + 1
  /\ result' = <<>>
  /\ UNCHANGED <<stdout, runVars>>

\* The main script: const graph = createGraph('./src/entry.js')
CallCreateGraph ==
  /\ pc = "start"
  /\ EnterCreateGraph(Entry)

\* for (const asset of queue) { ...; asset.mapping = {}; ... }  or, past the
\* end of the queue, return queue
NextAsset ==
  /\ pc = "loop"
  /\ IF i <= Len(queue)
     THEN /\ queue' = [queue EXCEPT ![i].mapped = TRUE, ![i].mapping = <<>>]
          /\ j' = 1
          /\ pc' = "deps"
     ELSE /\ pc' = "built"
          /\ UNCHANGED <<queue, j>>
  /\ UNCHANGED <<ID, fs, i, issued, builds, emitVars, runVars>>

\* A loop body with a discovery cache: for a file that already has a record
\* the parent's map names that record's identity and nothing is pushed.
VisitOnce(q, n, relativePath, child) ==
  LET known == {m \in 1..Len(q) :
                  CanonicalPath(q[m].filename) = CanonicalPath(child.filename)}
  IN IF known = {}
     THEN Append([q EXCEPT ![n].mapping = MapSet(@, relativePath, child.id)], child)
     ELSE [q EXCEPT ![n].mapping =
             MapSet(@, relativePath, q[CHOOSE m \in known : TRUE].id)]

\* A loop body that records the child's identity and forgets to push the
\* child.
VisitNoPush(q, n, relativePath, child) ==
  [q EXCEPT ![n].mapping = MapSet(@, relativePath, child.id)]

\* A loop body that puts the child right behind its parent instead of at
\* the end of the queue: the loop then goes depth first.
VisitDepthFirst(q, n, relativePath, child) ==
  LET r == [q EXCEPT ![n].mapping = MapSet(@, relativePath, child.id)]
  IN SubSeq(r, 1, n) \o <<child>> \o SubSeq(r, n + 1, Len(r))

\* A loop body that also writes the child's identity into the entry
\* record's map.
VisitBackLink(q, n, relativePath, child) ==
  Append([q EXCEPT ![n].mapping = MapSet(@, relativePath, child.id),
                   ![1].mapping = MapSet(@, relativePath, child.id)], child)

\* asset.mapping[relativePath] = child.id; queue.push(child)
Visit(q, n, relativePath, child) ==
  Append([q EXCEPT ![n].mapping = MapSet(@, relativePath, child.id)], child)

\* One turn of asset.deps.forEach, or the end of it.
NextDep ==
  /\ pc = "deps"
  /\ IF j <= Len(queue[i].deps)
     THEN /\ Len(queue) < QueueCap
          /\ LET relativePath == queue[i].deps[j]
                 absJs == ChildPath(queue[i].filename, relativePath)
             IN \E c \in Readable(absJs) :
                  /\ fs' = Read(absJs, c)
                  /\ IF Analyzable(c)
                     THEN /\ queue' = Visit(queue, i, relativePath, createAsset(absJs, c))
                          /\ ID' = ID + 1
                          /\ issued' = Append(issued, createAsset(absJs, c).id)
                          /\ j' = j + 1
                          /\ pc' = "deps"
                     ELSE /\ pc' = "failed"
                          /\ UNCHANGED <<queue, ID, issued, j>>
          /\ UNCHANGED i
     ELSE /\ i' = i + 1
          /\ pc' = "loop"
          /\ UNCHANGED <<ID, fs, queue, j, issued>>
  /\ UNCHANGED <<builds, emitVars, runVars>>

\* ------------------------------------------------------------------ bundle

\* JSON.stringify(mod.mapping): the keys and values in the object's own
\* order; `undefined` for a record that has no mapping property.
JSONStringify(mod) == [defined |-> mod.mapped, pairs |-> mod.mapping]

\* A bootstrap call that starts at the second identity.
BootIdOne == 0 + 1

\* The identity the artifact's last statement requires.
BootId == 0

\* A bundle that works the bootstrap identity out from the counter.
bundleFromCounter(graph) ==
  [modules |-> [n \in 1..Len(graph) |->
                  [id      |-> graph[n].id,
                   fn      |-> graph[n].code,
                   mapping |-> JSONStringify(graph[n])]],
   boot    |-> ID - Len(graph)]

RECURSIVE MergeMaps(_, _)
MergeMaps(graph, n) ==
  IF n = 0 THEN <<>>
  ELSE LET m == MergeMaps(graph, n - 1)
           own == graph[n].mapping
           new == {a \in 1..Len(own) : own[a].key \notin MapKeys(m)}
       IN m \o [b \in 1..Cardinality(new) |->
                  own[CHOOSE a \in new : Cardinality({c \in new : c < a}) = b - 1]]

\* A bundle with one specifier map for the whole artifact: every module is
\* given the union of the records' maps, the first record to write a
\* specifier deciding what it means.
bundleGlobalMap(graph) ==
  [modules |-> [n \in 1..Len(graph) |->
                  [id      |-> graph[n].id,
                   fn      |-> graph[n].code,
                   mapping |-> [defined |-> TRUE,
                                pairs   |-> MergeMaps(graph, Len(graph))]]],
   boot    |-> BootId]

\* bundle(graph): one `id: [function, mapping],` entry per record, in the
\* order of the collection, inside the fixed loader.
bundle(graph) ==
  [modules |-> [n \in 1..Len(graph) |->
                  [id      |-> graph[n].id,
                   fn      |-> graph[n].code,
                   mapping |-> JSONStringify(graph[n])]],
   boot    |-> BootId]

\* The main script: const result = bundle(graph)
CallBundle ==
  /\ pc = "built"
  /\ result' = <<bundle(queue)>>
  /\ pc' = "bundled"
  /\ UNCHANGED <<buildVars, stdout, runVars>>

\* The main script: console.log(result)
Log ==
  /\ pc = "bundled"
  /\ stdout' = Append(stdout, result[1])
  /\ pc' = "emitted"
  /\ UNCHANGED <<buildVars, result, runVars>>

\* ---------------------------------------------------- the generated loader

\* The object literal the artifact passes to the loader: of two entries with
\* the same key the later one stays.
Registry(artifact) ==
  LET ms == artifact.modules
      ids == {ms[n].id : n \in 1..Len(ms)}
  IN [id \in ids |-> ms[CHOOSE n \in 1..Len(ms) :
                         /\ ms[n].id = id
                         /\ \A k \in (n + 1)..Len(ms) : ms[k].id # id]]

\* The artifact being executed: the last one written.
Running == stdout[Len(stdout)]

\* A require with a module cache: a call for an identity that is being
\* loaded or was loaded before returns that load's exports object and does
\* not call the function body.
RequireCached(id, callerStack) ==
  LET loading == {n \in 1..Len(callerStack) : callerStack[n].id = id}
      loaded == {n \in 1..Len(returned) : returned[n].id = id}
      hit(exports) ==
        /\ returned' = Append(returned, [id |-> id, exports |-> exports])
        /\ stack' = callerStack
        /\ pc' = IF callerStack = <<>> THEN "finished" ELSE "running"
        /\ UNCHANGED <<nextObj, executed>>
  IN IF id \notin DOMAIN Registry(Running)
     THEN /\ pc' = "threw"
          /\ UNCHANGED <<stack, nextObj, executed, returned>>
     ELSE IF loading # {}
     THEN hit(callerStack[CHOOSE n \in loading : TRUE].exports)
     ELSE IF loaded # {}
     THEN hit(returned[CHOOSE n \in loaded : TRUE].exports)
     ELSE /\ stack' = Append(callerStack, [id |-> id, k |-> 1, exports |-> nextObj])
          /\ nextObj' = nextObj + 1
          /\ executed' = Append(executed, id)
          /\ pc' = "running"
          /\ UNCHANGED returned

\* A require that hands out an exports object at once and leaves the
\* function body for later.
RequireDeferred(id, callerStack) ==
  IF id \in DOMAIN Registry(Running)
  THEN /\ returned' = Append(returned, [id |-> id, exports |-> nextObj])
       /\ nextObj' = nextObj + 1
       /\ stack' = callerStack
       /\ pc' = IF callerStack = <<>> THEN "finished" ELSE "running"
       /\ UNCHANGED executed
  ELSE /\ pc' = "threw"
       /\ UNCHANGED <<stack, nextObj, executed, returned>>

\* require(id): const [fn, mapping] = modules[id] throws for an identity that
\* is not in the registry; else a new module object is made and fn is called.
Require(id, callerStack) ==
  IF id \in DOMAIN Registry(Running)
  THEN /\ stack' = Append(callerStack, [id |-> id, k |-> 1, exports |-> nextObj])
       /\ nextObj' = nextObj + 1
       /\ executed' = Append(executed, id)
       /\ pc' = "running"
       /\ UNCHANGED returned
  ELSE /\ pc' = "threw"
       /\ UNCHANGED <<stack, nextObj, executed, returned>>

\* The artifact's last statement: require(0)
Boot ==
  /\ pc = "emitted"
  /\ Require(Running.boot, <<>>)
  /\ UNCHANGED <<buildVars, emitVars, prior>>

\* The function body of the module on top of the stack calls
\* localRequire(relativePath): require(mapping[relativePath]).
LocalRequire ==
  /\ pc = "running"
  /\ LET top == stack[Len(stack)]
         mod == Registry(Running)[top.id]
     IN /\ top.k <= Len(mod.fn)
        /\ Len(stack) < StackCap
        /\ LET relativePath == mod.fn[top.k]
               paused == [stack EXCEPT ![Len(stack)].k = @ + 1]
           IN IF mod.mapping.defined /\ relativePath \in MapKeys(mod.mapping.pairs)
              THEN Require(MapVal(mod.mapping.pairs, relativePath), paused)
              ELSE /\ pc' = "threw"
                   /\ UNCHANGED runVars
  /\ UNCHANGED <<buildVars, emitVars, prior>>

\* The function body on top of the stack ends: return module.exports
Return ==
  /\ pc = "running"
  /\ LET top == stack[Len(stack)]
         mod == Registry(Running)[top.id]
     IN /\ top.k > Len(mod.fn)
        /\ returned' = Append(returned, [id |-> top.id, exports |-> top.exports])
        /\ stack' = SubSeq(stack, 1, Len(stack) - 1)
        /\ pc' = IF Len(stack) = 1 THEN "finished" ELSE "running"
  /\ UNCHANGED <<nextObj, executed, buildVars, emitVars, prior>>

\* ---------------------------------------------------------- specifications

Init ==
  /\ ID = 0
  /\ fs = <<>>
  /\ pc = "start"
  /\ queue = <<>>
  /\ i = 0
  /\ j = 0
  /\ issued = <<>>
  /\ builds = 0
  /\ result = <<>>
  /\ stdout = <<>>
  /\ stack = <<>>
  /\ nextObj = 0
  /\ executed = <<>>
  /\ returned = <<>>
  /\ prior = <<>>

\* The script as written: one build, the artifact written and then executed.
Next ==
  \/ CallCreateGraph
  \/ NextAsset
  \/ NextDep
  \/ CallBundle
  \/ Log
  \/ Boot
  \/ LocalRequire
  \/ Return

Spec == Init /\ [][Next]_vars

\* A process that calls createGraph again after an artifact was written.
CallCreateGraphAgain ==
  /\ pc = "emitted"
  /\ builds < MaxBuilds
  /\ EnterCreateGraph(Entry)

NextMulti ==
  \/ CallCreateGraph
  \/ NextAsset
  \/ NextDep
  \/ CallBundle
  \/ Log
  \/ Boot
  \/ LocalRequire
  \/ Return
  \/ CallCreateGraphAgain

SpecMulti == Init /\ [][NextMulti]_vars

\* ------------------------------------------- bundle on a given collection

\* The specifiers of the records handed to bundle directly.
EmitSpecifiers == {"./a", "./b"}

\* The specifier maps a record of a collection of n records may have: each
\* specifier at most once, each value the identity of one of the n records.
EmitMappings(n) ==
  {<<>>}
    \cup {<<[key |-> s, val |-> v]>> : s \in EmitSpecifiers, v \in 0..(n - 1)}
    \cup UNION {{<<[key |-> s, val |-> v], [key |-> t, val |-> w]>> :
                   t \in EmitSpecifiers \ {s}, v \in 0..(n - 1), w \in 0..(n - 1)} :
                 s \in EmitSpecifiers}

\* Record k is the entry, or is named by one of the maps before it.
Discovered(ms, k) ==
  k = 1 \/ \E m \in 1..Len(ms) : \E a \in 1..Len(ms[m]) : ms[m][a].val = k - 1

\* The sequences of k specifier maps with at most e entries in all, every
\* record but the first being named by the map of a record before it.
RECURSIVE MappingSeqs(_, _, _)
MappingSeqs(n, k, e) ==
  IF k = 0 THEN {<<>>}
  ELSE UNION {LET shorter == {ms \in MappingSeqs(n, k - 1, e - len) : Discovered(ms, k)}
                  maps == {m \in EmitMappings(n) : Len(m) = len}
              IN {Append(ms, m) : ms \in shorter, m \in maps} :
              len \in {l \in 0..2 : l <= e}}

\* A complete, well-formed record: what createGraph leaves of a module
\* whose deps are the keys of `mapping`.
EmitRecord(k, mapping) ==
  LET deps == [a \in 1..Len(mapping) |-> mapping[a].key] IN
  [id       |-> k - 1,
   filename |-> <<"src", "m" \o ToString(k - 1) \o ".js">>,
   deps     |-> deps,
   code     |-> Lower(deps),
   mapped   |-> TRUE,
   mapping  |-> mapping]

\* The collections bundle is given: the entry first with identity 0, the
\* identities 0..n-1 in order, every specifier map complete.
EmitCollections ==
  UNION {{[k \in 1..n |-> EmitRecord(k, ms[k])] :
            ms \in MappingSeqs(n, n, MaxEdges)} :
         n \in 1..(MaxEdges + 1)}

InitEmit ==
  /\ queue \in EmitCollections
  /\ ID = Len(queue)
  /\ issued = [n \in 1..Len(queue) |-> n - 1]
  /\ fs = <<>>
  /\ pc = "built"
  /\ i = Len(queue) + 1
  /\ j = 0
  /\ builds = 1
  /\ result = <<>>
  /\ stdout = <<>>
  /\ stack = <<>>
  /\ nextObj = 0
  /\ executed = <<>>
  /\ returned = <<>>
  /\ prior = <<>>

\* Between two bundle calls createAsset is called for some other file: the
\* counter moves on.
AnalyzeOther ==
  /\ pc = "bundled"
  /\ ID = Len(queue)
  /\ ID' = ID + 1
  /\ issued' = Append(issued, ID)
  /\ pc' = "analyzed"
  /\ UNCHANGED <<fs, queue, i, j, builds, emitVars, runVars>>

\* bundle(graph) is called a second time on the same collection.
CallBundleAgain ==
  /\ pc = "analyzed"
  /\ result' = <<bundle(queue)>>
  /\ pc' = "bundled"
  /\ UNCHANGED <<buildVars, stdout, runVars>>

NextEmit ==
  \/ CallBundle
  \/ AnalyzeOther
  \/ CallBundleAgain
  \/ Log
  \/ Boot
  \/ LocalRequire
  \/ Return

SpecEmit == InitEmit /\ [][NextEmit]_vars

\* ----------------------------------------- bundle on a renamed collection

\* The renamings of the identities 0..n-1 of a collection of n records: a
\* new identity out of 0..n for each, no two alike.
Relabelings(n) ==
  {pi \in [0..(n - 1) -> 0..n] : \A a, b \in 0..(n - 1) : pi[a] = pi[b] => a = b}

\* The collection with every record's identity renamed by pi and every
\* specifier-map value rewritten accordingly.
RelabelGraph(graph, pi) ==
  [n \in 1..Len(graph) |->
     [graph[n] EXCEPT
        !.id = pi[@],
        !.mapping = [a \in 1..Len(@) |-> [key |-> @[a].key, val |-> pi[@[a].val]]]]]

\* After the artifact of a collection has run to its end, the collection is
\* renamed and handed to bundle again.
Relabel ==
  /\ pc = "finished"
  /\ prior = <<>>
  /\ \E pi \in Relabelings(Len(queue)) : queue' = RelabelGraph(queue, pi)
  /\ prior' = <<[artifact |-> Running, executed |-> executed]>>
  /\ pc' = "built"
  /\ result' = <<>>
  /\ stack' = <<>>
  /\ nextObj' = 0
  /\ executed' = <<>>
  /\ returned' = <<>>
  /\ UNCHANGED <<ID, fs, i, j, issued, builds, stdout>>

NextRelabel ==
  \/ CallBundle
  \/ Log
  \/ Boot
  \/ LocalRequire
  \/ Return
  \/ Relabel

SpecRelabel == InitEmit /\ [][NextRelabel]_vars

\* ------------------------------------------------------- the import graph

\* The file the main script's entry is read from.
EntryPath == CanonicalPath(Entry)

\* The files read so far that hold a module.
Modules(f) == {p \in DOMAIN f : f[p].kind = "ok"}

\* The files the module in file p imports, one per import declaration.
ImportsOf(f, p) == [n \in 1..Len(f[p].deps) |-> ChildPath(p, f[p].deps[n])]

Range(s) == {s[n] : n \in 1..Len(s)}

RECURSIVE Closure(_, _)
Closure(f, S) ==
  LET more == S \cup UNION {Range(ImportsOf(f, p)) : p \in S \cap Modules(f)}
  IN IF more = S THEN S ELSE Closure(f, more)

\* The files reachable from p by one import or more.
Descendants(f, p) == Closure(f, Range(ImportsOf(f, p)))

\* Some module read so far imports itself, directly or through others.
Cyclic(f) == \E p \in Modules(f) : p \in Descendants(f, p)

RECURSIVE SumSeq(_)
SumSeq(s) == IF s = <<>> THEN 0 ELSE Head(s) + SumSeq(Tail(s))

\* The number of import paths from p, p itself included (acyclic graphs).
RECURSIVE PathCount(_, _)
PathCount(f, p) ==
  1 + SumSeq([n \in 1..Len(f[p].deps) |-> PathCount(f, ImportsOf(f, p)[n])])

\* createGraph has returned its queue.
Returned == pc \in {"built", "bundled", "emitted", "running", "finished", "threw"}

\* The model stopped the loop at QueueCap with an import still to visit.
Capped ==
  /\ pc = "deps"
  /\ j <= Len(queue[i].deps)
  /\ Len(queue) >= QueueCap

SamePath(a, b) == CanonicalPath(a.filename) = CanonicalPath(b.filename)

\* ------------------------------------------------------ the registry graph

\* The identities the body of module id requires.
Requires(reg, id) ==
  {MapVal(reg[id].mapping.pairs, s) :
     s \in {t \in Range(reg[id].fn) : t \in MapKeys(reg[id].mapping.pairs)}}

RECURSIVE RequireClosure(_, _)
RequireClosure(reg, S) ==
  LET more == S \cup UNION {Requires(reg, id) : id \in S \cap DOMAIN reg}
  IN IF more = S THEN S ELSE RequireClosure(reg, more)

\* Some module that the bootstrap call reaches requires itself, directly or
\* through others.
CyclicFromBoot(artifact) ==
  LET reg == Registry(artifact) IN
  \E id \in RequireClosure(reg, {artifact.boot}) \cap DOMAIN reg :
    id \in RequireClosure(reg, Requires(reg, id))

\* The model stopped the artifact at StackCap with a require still to make.
StackCapped ==
  /\ pc = "running"
  /\ Len(stack) >= StackCap
  /\ stack[Len(stack)].k <= Len(Registry(Running)[stack[Len(stack)].id].fn)

\* ------------------------------------------------------------------ claims

\* C1, as stated: createGraph keeps one record per distinct canonical path;
\* two records of the queue never stand for the same file, so every importer
\* of a module is given the same identity for it.
C1_OneRecordPerPath ==
  \A m, n \in 1..Len(queue) : SamePath(queue[m], queue[n]) => m = n

\* C1, amended: createGraph analyzes once per import declaration it visits.
\* When it returns, the collection holds one record for the entry and one
\* for every entry of every record's deps list, createAsset was called once
\* per record, all identities differ, and no two specifier-map entries
\* (of the same or of different records) name the same identity: two
\* importers of one module hold different identities for it.
C1_OneRecordPerImport ==
  Returned =>
    /\ Len(queue) = 1 + SumSeq([n \in 1..Len(queue) |-> Len(queue[n].deps)])
    /\ Len(issued) = Len(queue)
    /\ \A m, n \in 1..Len(queue) : queue[m].id = queue[n].id => m = n
    /\ \A m, n \in 1..Len(queue) :
         \A a \in 1..Len(queue[m].mapping), b \in 1..Len(queue[n].mapping) :
           queue[m].mapping[a].val = queue[n].mapping[b].val => (m = n /\ a = b)

\* C1, witness: a returned collection in which two different modules import
\* the same file, and hold two identities for it.
C1_Witness ==
  /\ Returned
  /\ \E m, n \in 1..Len(queue) :
       /\ ~SamePath(queue[m], queue[n])
       /\ \E s \in MapKeys(queue[m].mapping), t \in MapKeys(queue[n].mapping) :
            /\ ChildPath(queue[m].filename, s) = ChildPath(queue[n].filename, t)
            /\ MapVal(queue[m].mapping, s) # MapVal(queue[n].mapping, t)

\* C2, as stated: the worklist never holds more records than the graph has
\* distinct modules (cycles included), and createGraph returns exactly one
\* record per distinct module.
C2_OneRecordPerModule ==
  /\ Len(queue) <= Cardinality(Modules(fs))
  /\ Returned => Len(queue) = Cardinality(Modules(fs))

\* C2, amended: createGraph returns only for an acyclic import graph, and
\* then with one record per import path from the entry (the number of
\* distinct modules only if no module is imported twice); the worklist of an
\* acyclic graph is used up one position per step (every step of the loop
\* moves on in the queue or in the deps list, and never back); on a graph
\* with a cycle the queue keeps growing ahead of the loop, which never ends
\* (the model stops it at QueueCap, and stops no acyclic graph there).
C2_AcyclicTerminates ==
  /\ [](/\ Returned =>
            /\ ~Cyclic(fs)
            /\ Len(queue) = PathCount(fs, EntryPath)
        /\ Capped => Cyclic(fs)
        /\ pc \in {"loop", "deps"} => i <= Len(queue) + 1)
  /\ [][(pc \in {"loop", "deps"} /\ pc' \in {"loop", "deps"}) =>
          /\ Len(queue') >= Len(queue)
          /\ \/ i' = i + 1 /\ pc = "deps" /\ pc' = "loop"
             \/ i' = i /\ pc = "loop" /\ pc' = "deps" /\ j' = 1
             \/ i' = i /\ pc = "deps" /\ pc' = "deps" /\ j' = j + 1
                       /\ Len(queue') = Len(queue) + 1]_vars

\* C2, witness: createGraph returned for an acyclic graph with more records
\* than modules.
C2_Witness ==
  /\ Returned
  /\ ~Cyclic(fs)
  /\ Len(queue) > Cardinality(Modules(fs))

\* C5, as stated: whenever bundle has produced an artifact, the first
\* record of the collection (the entry) carries the identity that the
\* artifact's bootstrap call requires, also on a later createGraph call.
C5_EntryIsBootId ==
  result # <<>> => queue[1].id = result[1].boot

C7_NoPartialArtifact ==
  /\ pc = "failed" => (result = <<>> /\ stdout = <<>>)
  /\ (\E p \in DOMAIN fs : fs[p].kind # "ok") => stdout = <<>>
  /\ stdout # <<>> =>
       /\ i = Len(queue) + 1
       /\ \A n \in 1..Len(queue) :
            \A k \in 1..Len(queue[n].deps) :
              ChildPath(queue[n].filename, queue[n].deps[k]) \in Modules(fs)
       /\ stdout = <<bundle(queue)>>

\* C7, witness: the analysis of an imported module failed after two records
\* or more had been created, and nothing was written.
C7_Witness ==
  /\ pc = "failed"
  /\ Len(queue) >= 2
  /\ \E p \in DOMAIN fs : fs[p].kind = "unparsable"
  /\ stdout = <<>>

\* The identities handed out so far differ from one another.
IssuedOnce == \A m, n \in 1..Len(issued) : issued[m] = issued[n] => m = n

\* C8: over any number of createGraph calls no identity is handed out twice,
\* no two records of a collection share an identity, the records of the
\* current call carry the last identities handed out, in order, the emitted
\* registry has one entry per record, and no step changes the identity of a
\* record of the current collection.
C8_IdentitiesUnique ==
  /\ [](/\ IssuedOnce
        /\ \A m, n \in 1..Len(queue) : queue[m].id = queue[n].id => m = n
        /\ \A n \in 1..Len(queue) :
             queue[n].id = issued[Len(issued) - Len(queue) + n]
        /\ result # <<>> =>
             Cardinality(DOMAIN Registry(result[1])) = Len(queue))
  /\ [][builds' = builds =>
          \A n \in 1..Len(queue) : n <= Len(queue') /\ queue'[n].id = queue[n].id]_vars

\* C8, witness: a second createGraph call returned a collection of two
\* records or more and its artifact was produced.
C8_Witness ==
  /\ builds = 2
  /\ Len(queue) >= 2
  /\ result # <<>>

\* The file system holds the chain: the entry imports s only, the file s
\* names imports t only, and the file t names imports nothing.
IsChain(s, t) ==
  LET e == EntryPath
      a == ChildPath(e, s)
      b == ChildPath(a, t)
  IN /\ e \in DOMAIN fs
     /\ fs[e] = [kind |-> "ok", deps |-> <<s>>]
     /\ a \in DOMAIN fs
     /\ fs[a] = [kind |-> "ok", deps |-> <<t>>]
     /\ b \in DOMAIN fs
     /\ fs[b] = [kind |-> "ok", deps |-> <<>>]
     /\ Cardinality({e, a, b}) = 3

\* C9: for a chain E -> a -> b the build does not fail; the returned
\* collection has 3 records, E's map is {s: id(a)}, a's map is {t: id(b)} and
\* b's map is empty; executing the artifact starts with the entry's body,
\* throws nothing, never stops half way, and ends with the three bodies run
\* once each, E first.
C9_Chain ==
  \A s \in (IF EntryPath \in DOMAIN fs /\ Len(fs[EntryPath].deps) = 1
            THEN {fs[EntryPath].deps[1]} ELSE {}) :
  \A t \in Specifiers :
    IsChain(s, t) =>
      /\ pc \notin {"failed", "threw"}
      /\ Returned =>
           /\ Len(queue) = 3
           /\ queue[1].mapping = <<[key |-> s, val |-> queue[2].id]>>
           /\ queue[2].mapping = <<[key |-> t, val |-> queue[3].id]>>
           /\ queue[3].mapping = <<>>
           /\ queue[3].mapped
      /\ executed # <<>> => executed[1] = queue[1].id
      /\ pc # "finished" => ENABLED Next
      /\ pc = "finished" =>
           /\ executed = <<queue[1].id, queue[2].id, queue[3].id>>
           /\ Len(returned) = 3

\* C9, witness: the artifact of the chain "./a", "./b" has run to its end.
C9_Witness ==
  /\ IsChain("./a", "./b")
  /\ pc = "finished"

Position(artifact, id) ==
  CHOOSE n \in 1..Len(artifact.modules) : artifact.modules[n].id = id

\* The modules whose bodies were invoked, by their place in the artifact.
Evaluated(artifact, ids) == [n \in 1..Len(ids) |-> Position(artifact, ids[n])]

\* The artifact of the renamed collection is being executed or has ended.
RunsRelabelled == prior # <<>> /\ pc \in {"running", "finished", "threw"}

\* C11, as stated: the artifact of a collection whose identities were
\* renamed by a bijection (the entry's included, the specifier maps
\* rewritten) evaluates the same modules in the same order as the artifact
\* of the original collection: it does not throw, the first body it runs is
\* the entry's, and when it ends it has run the same records in the same
\* order.
C11_RelabelingInvariant ==
  RunsRelabelled =>
    /\ pc # "threw"
    /\ executed # <<>> => executed[1] = queue[1].id
    /\ pc = "finished" =>
         Evaluated(Running, executed) = Evaluated(prior[1].artifact, prior[1].executed)

\* The record of the current collection that carries identity id.
RecordOf(id) == queue[CHOOSE n \in 1..Len(queue) : queue[n].id = id]

\* The directory the specifiers of a record are resolved against.
Directory(asset) == Normalize(Dirname(asset.filename))

\* C12: when the body of module M calls its require with specifier s, the
\* module that is loaded carries the identity M's own specifier map gives
\* for s, and it is the module of the file s names from M's directory; two
\* records in different directories that write the same specifier have
\* different targets for it, each the file the specifier names from its own
\* directory.
C12_ScopedResolution ==
  /\ [](Returned =>
          \A m, n \in 1..Len(queue) :
            \A s \in MapKeys(queue[m].mapping) \cap MapKeys(queue[n].mapping) :
              Directory(queue[m]) # Directory(queue[n]) =>
                /\ MapVal(queue[m].mapping, s) # MapVal(queue[n].mapping, s)
                /\ RecordOf(MapVal(queue[m].mapping, s)).filename
                     = ChildPath(queue[m].filename, s)
                /\ RecordOf(MapVal(queue[n].mapping, s)).filename
                     = ChildPath(queue[n].filename, s)
                /\ ChildPath(queue[m].filename, s) # ChildPath(queue[n].filename, s))
  /\ [][(pc = "running" /\ pc' = "running" /\ Len(stack') = Len(stack) + 1) =>
          LET M == RecordOf(stack[Len(stack)].id)
              s == M.code[stack[Len(stack)].k]
              D == RecordOf(stack'[Len(stack')].id)
          IN /\ D.id = MapVal(M.mapping, s)
             /\ D.filename = ChildPath(M.filename, s)
             /\ executed' = Append(executed, D.id)]_vars

\* C12, witness: the artifact ran to its end, and two modules in different
\* directories, whose bodies both ran, wrote the same specifier and loaded
\* two different modules with it.
C12_Witness ==
  /\ pc = "finished"
  /\ \E m, n \in 1..Len(queue) :
       \E s \in MapKeys(queue[m].mapping) \cap MapKeys(queue[n].mapping) :
         /\ Directory(queue[m]) # Directory(queue[n])
         /\ MapVal(queue[m].mapping, s) # MapVal(queue[n].mapping, s)
         /\ {queue[m].id, queue[n].id, MapVal(queue[m].mapping, s),
             MapVal(queue[n].mapping, s)} \subseteq Range(executed)

\* The places in the current collection of the records with identity id.
Carriers(id) == {p \in 1..Len(queue) : queue[p].id = id}

RecordPaths == {CanonicalPath(queue[n].filename) : n \in 1..Len(queue)}

\* Some specifier map of the current collection has identity id as a value.
Referenced(id) ==
  \E n \in 1..Len(queue) : \E a \in 1..Len(queue[n].mapping) :
    queue[n].mapping[a].val = id

\* The place in the returned queue of the record pushed for the k-th import
\* of the record at place m.
ChildAt(m, k) == 1 + SumSeq([n \in 1..(m - 1) |-> Len(queue[n].deps)]) + k

\* C14, as stated: the returned collection has a record for every module
\* reachable from the entry and for no other file, and every record other
\* than the entry is referenced by the specifier map of some record, also
\* when a module writes the same specifier more than once.
C14_ExactlyReachable ==
  Returned =>
    /\ RecordPaths = {EntryPath} \cup Descendants(fs, EntryPath)
    /\ \A n \in 2..Len(queue) : Referenced(queue[n].id)

\* C14, amended: the returned collection has at least one record for every
\* module reachable from the entry and none for any other file; every
\* record but the entry was pushed for one import declaration of a record
\* before it; it is referenced by that record's specifier map, and by no
\* other, if the declaration is the last one of that record with its
\* specifier, and by no map at all if the same specifier is written again
\* later in that record's import list.
C14_ReachableWithOrphans ==
  Returned =>
    /\ RecordPaths = {EntryPath} \cup Descendants(fs, EntryPath)
    /\ \A m \in 1..Len(queue) : \A k \in 1..Len(queue[m].deps) :
         LET s == queue[m].deps[k]
             c == queue[ChildAt(m, k)]
             last == \A l \in (k + 1)..Len(queue[m].deps) : queue[m].deps[l] # s
         IN /\ m < ChildAt(m, k)
            /\ ChildAt(m, k) <= Len(queue)
            /\ c.filename = ChildPath(queue[m].filename, s)
            /\ last => MapVal(queue[m].mapping, s) = c.id
            /\ Referenced(c.id) <=> last
    /\ Len(queue) = ChildAt(Len(queue), Len(queue[Len(queue)].deps))

\* C14, witness: createGraph returned a collection in which a record other
\* than the entry writes one specifier twice, and the record pushed for the
\* first of the two is in no specifier map.
C14_Witness ==
  /\ Returned
  /\ \E m \in 2..Len(queue) : \E k, l \in 1..Len(queue[m].deps) :
       /\ k < l
       /\ queue[m].deps[k] = queue[m].deps[l]
       /\ ~Referenced(queue[ChildAt(m, k)].id)

\* The place of the record whose import the record at place n was pushed for.
Parent(n) ==
  CHOOSE m \in 1..(n - 1) : \E k \in 1..Len(queue[m].deps) : ChildAt(m, k) = n

\* The number of imports between the entry and the record at place n.
RECURSIVE Depth(_)
Depth(n) == IF n = 1 THEN 0 ELSE 1 + Depth(Parent(n))

\* C15: createGraph returns the records in breadth-first order: the records
\* pushed for the imports of a record come in the order of its import list,
\* behind those of every record before it, so the distance from the entry
\* never decreases along the queue; identities are handed out in the same
\* order: they grow by one from each record to the next, in the first build
\* of a process the record at place n (counted from 0) has identity n, and
\* every push appends the record of the import being visited with the next
\* value of the counter.
C15_DiscoveryOrder ==
  /\ [](/\ \A n \in 1..(Len(queue) - 1) : queue[n + 1].id = queue[n].id + 1
        /\ builds = 1 => \A n \in 1..Len(queue) : queue[n].id = n - 1
        /\ Returned =>
             /\ \A m \in 1..Len(queue) : \A k \in 1..Len(queue[m].deps) :
                  /\ ChildAt(m, k) \in (m + 1)..Len(queue)
                  /\ queue[ChildAt(m, k)].filename
                       = ChildPath(queue[m].filename, queue[m].deps[k])
             /\ \A n \in 1..(Len(queue) - 1) :
                  /\ Depth(n) <= Depth(n + 1)
                  /\ n >= 2 => Parent(n) <= Parent(n + 1))
  /\ [][(pc = "deps" /\ Len(queue') # Len(queue)) =>
          /\ Len(queue') = Len(queue) + 1
          /\ \A n \in 1..Len(queue) : queue'[n].filename = queue[n].filename
          /\ queue'[Len(queue')].filename
               = ChildPath(queue[i].filename, queue[i].deps[j])
          /\ queue'[Len(queue')].id = ID
          /\ ID' = ID + 1]_vars

\* C15, witness: a second build returned a collection in which a record two
\* imports away from the entry stands behind a record one import away that
\* is not its parent (depth-first order would have put it before).
C15_Witness ==
  /\ builds = 2
  /\ Returned
  /\ \E n \in 3..Len(queue) :
       /\ Depth(n) = 2
       /\ Depth(n - 1) = 1
       /\ Parent(n) < n - 1

\* C16: a step of the worklist loop removes no record and appends at most
\* one; it leaves the identity, the file name, the import list and the
\* lowered code of every record as they were, and changes no record but the
\* one being processed, of which it changes the specifier map only; once
\* createGraph has returned, no later step of the same run changes the
\* collection.
C16_Frame ==
  /\ [][(pc = "loop" \/ pc = "deps") =>
          /\ Len(queue') \in {Len(queue), Len(queue) + 1}
          /\ \A n \in 1..Len(queue) :
               /\ queue'[n].id = queue[n].id
               /\ queue'[n].filename = queue[n].filename
               /\ queue'[n].deps = queue[n].deps
               /\ queue'[n].code = queue[n].code
               /\ n # i => queue'[n] = queue[n]
          /\ (Len(queue') > Len(queue)) =>
               (/\ pc = "deps"
                /\ queue'[Len(queue')].mapped = FALSE
                /\ Len(queue[i].mapping) <= Len(queue'[i].mapping))]_vars
  /\ [][(Returned /\ builds' = builds) => queue' = queue]_vars

\* C16, witness: in a second build the loop is working on a record other
\* than the entry and has filled in one entry of its map and pushed a
\* record for it, while the entry's map and the records before are complete.
C16_Witness ==
  /\ builds = 2
  /\ pc = "deps"
  /\ i >= 2
  /\ j = 2
  /\ Len(queue[i].mapping) = 1
  /\ Len(queue[1].mapping) >= 1
  /\ Len(queue) > i

\* The identities in the order in which their require calls return when
\* require(id) is called on an acyclic registry: for each require call of
\* the body in turn everything that call finishes, then id itself.
RECURSIVE PostOrder(_, _), PostOrderFrom(_, _, _)
PostOrderFrom(reg, id, k) ==
  IF k > Len(reg[id].fn) THEN <<id>>
  ELSE PostOrder(reg, MapVal(reg[id].mapping.pairs, reg[id].fn[k]))
         \o PostOrderFrom(reg, id, k + 1)
PostOrder(reg, id) == PostOrderFrom(reg, id, 1)

\* The identities of the require calls that have returned, in order.
Finished == [r \in 1..Len(returned) |-> returned[r].id]

\* C17: a require call made by a body runs the required module's body, and
\* the bodies that one requires, to the end before the calling body goes on:
\* while a frame has another frame above it on the call stack it does not
\* move, and a frame is only ever added or removed at the top; when a
\* require call has returned, the module and everything it requires,
\* directly or through others, have returned before; on an acyclic registry
\* the require calls return in depth-first post-order of the calls, the
\* bootstrap call last.
C17_SynchronousNested ==
  /\ [](/\ \A r \in 1..Len(returned) :
             \A d \in RequireClosure(Registry(Running), {returned[r].id}) :
               \E q \in 1..r : returned[q].id = d
        /\ (stdout # <<>> /\ ~CyclicFromBoot(Running)) =>
             LET order == PostOrder(Registry(Running), Running.boot)
             IN /\ Len(Finished) <= Len(order)
                /\ Finished = SubSeq(order, 1, Len(Finished))
                /\ pc = "finished" <=> Finished = order)
  /\ [][/\ Len(stack') \in {Len(stack) - 1, Len(stack), Len(stack) + 1}
        /\ \A n \in 1..(Len(stack) - 1) : n <= Len(stack') /\ stack'[n] = stack[n]
        /\ (Len(stack') = Len(stack) + 1 /\ stack # <<>>) =>
              (/\ stack'[Len(stack)].k = stack[Len(stack)].k + 1
               /\ returned' = returned)
        /\ (Len(stack') < Len(stack)) =>
              (/\ returned' = Append(returned, [id      |-> stack[Len(stack)].id,
                                                 exports |-> stack[Len(stack)].exports])
               /\ stack[Len(stack)].k > Len(Registry(Running)[stack[Len(stack)].id].fn))]_vars

\* C17, witness: an artifact ran to its end, and its modules finished in an
\* order that is neither the order of the collection nor its reverse: of
\* two modules other than the entry the later one of the collection finished
\* first, of two others the earlier one.
C17_Witness ==
  /\ pc = "finished"
  /\ \E q, r \in 1..Len(returned) :
       /\ q < r
       /\ Position(Running, returned[q].id) > Position(Running, returned[r].id)
       /\ Position(Running, returned[r].id) > 1
  /\ \E q, r \in 1..Len(returned) :
       /\ q < r
       /\ Position(Running, returned[q].id) < Position(Running, returned[r].id)

=============================================================================
